---- MODULE Spec2Model ----
(***************************************************************************)
(* The ambient "aura" animation engine of components/AuraBackground.tsx:   *)
(* the ring lifecycle (spawn watermark, expiry filter), the per-frame draw *)
(* calls and the requestAnimationFrame loop with its effect cleanup.       *)
(*                                                                         *)
(* Times are milliseconds, as in the source.  The clock source is explored *)
(* on a grid of GridMs milliseconds, which divides every duration of the   *)
(* source (14000, 3500, 10000, 6000, 2000) and the 1500 of the seeded      *)
(* scenario, so that ticks exactly on a boundary are among the cases.      *)
(*                                                                         *)
(* The host page of App.tsx, which shows the engine behind its content, is *)
(* modelled beside it: its analysis status, file uploads and chat, with    *)
(* the values a committed render closes over kept apart from the state.    *)
(***************************************************************************)
EXTENDS Integers, Sequences, FiniteSets, TLC

\* ------------------------------------------------------------------ bounds
\* The clock source is explored up to MaxSteps grid steps.
MaxSteps == 37
\* At most MaxFrames render calls per engine instance.
MaxFrames == 5
\* Draw calls fail in the first MaxFaultFrames render calls only.
MaxFaultFrames == 2
\* Frames explored on a surface without conic gradients.
MaxFallbackFrames == 3
\* Spacing, in milliseconds, of the ages at which the envelope is evaluated.
ProbeStep == 700
\* The cold-start scenario runs for at most MaxColdFrames render calls.
MaxColdFrames == 40
\* Render calls explored when the effect runs again after a cleanup.
MaxRemountFrames == 3
\* Requests of one kind the host page has in flight at a time, at most.
MaxPending == 2
\* Longest text of the host page's content field, in characters.
MaxContent == 3
\* Longest chat history explored.
MaxChat == 3
\* Runs of the effect body explored when the component is mounted again.
MaxMounts == 2

\* Resolution, in milliseconds, at which the clock source is explored.
GridMs == 500
MaxTime == MaxSteps * GridMs

\* Delays the clock source can put between two of its readings.
Delays == {k * GridMs : k \in 0..MaxSteps}

\* performance.now() when the component mounts.
StartTimes == {GridMs}

\* ------------------------------------------------- visual configuration
RING_LIFETIME == 14000
SPAWN_INTERVAL == 3500

\* const numSteps = 180
numSteps == 180

\* COLOR_STOPS, positions in hundredths.
COLOR_STOPS == <<[pos |-> 0, color |-> "#00f3ff"], [pos |-> 25, color |-> "#bc13fe"],
                 [pos |-> 50, color |-> "#4d00c2"], [pos |-> 75, color |-> "#ff0055"],
                 [pos |-> 100, color |-> "#00f3ff"]>>

\* Ages of the pre-warmed rings, in the order of the array literal.
PreseedAges == <<10000, 6000, 2000>>

\* What useRef / getContext can yield when the effect runs.
Surfaces == {"ok", "nocanvas", "nocontext"}

\* Window sizes the viewport provider can report: innerWidth, innerHeight and
\* devicePixelRatio in halves (dpr2 = 2 * devicePixelRatio; 3 is a ratio of 1.5).
Viewports == {[w |-> 800, h |-> 600, dpr2 |-> 2], [w |-> 375, h |-> 667, dpr2 |-> 3]}

\* No window size has been read yet.
NoViewport == [w |-> 0, h |-> 0, dpr2 |-> 0]

\* The bitmap of a canvas element that was never sized.
DefaultCanvas == [width |-> 300, height |-> 150]

\* Draw calls of render that can fail.
ThrowSites == {"clearRect", "createConicGradient", "stroke"}

VARIABLES
    clock,            \* the clock source (performance.now / frame timestamp)
    engine,           \* "None" | "Running" | "Stopped" | "NoSurface"
    now,              \* const now = performance.now()
    rings,            \* let rings: Ring[]
    lastSpawnTime,    \* let lastSpawnTime
    animationFrameId, \* let animationFrameId (0 while unassigned)
    pendingFrames,    \* the browser's list of animation frame callbacks
    nextHandle,       \* the browser's animation frame callback identifier
    conic,            \* whether ctx.createConicGradient exists
    composite,        \* ctx.globalCompositeOperation
    viewport,         \* window size read by the latest render call
    canvas,           \* canvas.width, canvas.height
    scale2,           \* 2 * the scale of the context's transform
    time,             \* argument of the latest render call
    frames,           \* number of render calls made
    drawLog,          \* draw calls issued by the latest render call
    created,          \* history: every Ring object ever created
    probe,            \* inputs and results of an envelope evaluation
    mounts,           \* number of runs of the effect body that built an engine
    firstHandle,      \* the first callback identifier given to the latest engine
    state,            \* App: const [state, setState] (content, status, error, result)
    chatInput,        \* App: const [chatInput, setChatInput]
    chatHistory,      \* App: const [chatHistory, setChatHistory]
    isChatting,       \* App: const [isChatting, setIsChatting]
    view,             \* App: the state values the committed render closed over
    inFlight          \* App: promises not settled yet, per kind of request

vars == <<clock, engine, now, rings, lastSpawnTime, animationFrameId,
          pendingFrames, nextHandle, conic, composite, viewport, canvas, scale2,
          time, frames, drawLog, created, probe, mounts, firstHandle,
          state, chatInput, chatHistory, isChatting, view, inFlight>>

\* The variables of the aura engine and of its surface, those that tell the
\* engine instances apart, and those of the host page.
auraVars == <<clock, engine, now, rings, lastSpawnTime, animationFrameId,
              pendingFrames, nextHandle, conic, composite, viewport, canvas, scale2,
              time, frames, drawLog, created, probe>>
instanceVars == <<mounts, firstHandle>>
pageVars == <<state, chatInput, chatHistory, isChatting, view, inFlight>>

\* --------------------------------------------------------- ring lifecycle
Ring(t) == [pawnTime |-> t]

\* rings = [{now - 10000}, {now - 6000}, {now - 2000}]
Preseed(t) == [i \in 1..Len(PreseedAges) |-> Ring(t - PreseedAges[i])]

\* Variant: the comparison written >=.
ShouldSpawnGe(t, last) == t - last >= SPAWN_INTERVAL

\* if (time - lastSpawnTime > SPAWN_INTERVAL)
ShouldSpawn(t, last) == t - last > SPAWN_INTERVAL

\* Variant: the new ring put in front (unshift for push).
PushFront(rs, t) == <<Ring(t)>> \o rs

\* rings.push({ pawnTime: time })
Push(rs, t) == Append(rs, Ring(t))

\* Variant: the watermark never updated.
WatermarkStale(last, t) == last

\* lastSpawnTime = time
Watermark(last, t) == IF ShouldSpawn(t, last) THEN t ELSE last

\* Variants: the comparison written <=; the filter predicate always true.
AliveLe(r, t) == t - r.pawnTime <= RING_LIFETIME
AliveAlways(r, t) == TRUE

\* r => (time - r.pawnTime) < RING_LIFETIME
Alive(r, t) == t - r.pawnTime < RING_LIFETIME

\* rings.filter(...)
Filter(rs, t) == SelectSeq(rs, LAMBDA r : Alive(r, t))

\* Variant: the ring list emptied by a tick that sees a new viewport.
AdvanceResetOnResize(rs, last, t) ==
    IF viewport' # viewport THEN <<>>
    ELSE SelectSeq(IF t - last > SPAWN_INTERVAL THEN Append(rs, [pawnTime |-> t]) ELSE rs,
                   LAMBDA r : t - r.pawnTime < RING_LIFETIME)

\* Variant: no ring is ever appended.
SpawnedNever(rs, last, t) == rs

\* The spawn step followed by the expiry filter.
Spawned(rs, last, t) == IF ShouldSpawn(t, last) THEN Push(rs, t) ELSE rs
Advance(rs, last, t) == Filter(Spawned(rs, last, t), t)

\* --------------------------------------------------------- canvas sizing
\* const dpr = window.devicePixelRatio || 1, in halves
Dpr2(v) == IF v.dpr2 = 0 THEN 2 ELSE v.dpr2

\* canvas.width !== displayWidth * dpr || canvas.height !== displayHeight * dpr
NeedsResize(c, v) == 2 * c.width # v.w * Dpr2(v) \/ 2 * c.height # v.h * Dpr2(v)

\* canvas.width = displayWidth * dpr: the attribute is an integer and the
\* assignment truncates.
Sized(v) == [width |-> (v.w * Dpr2(v)) \div 2, height |-> (v.h * Dpr2(v)) \div 2]

Resized(c, v) == IF NeedsResize(c, v) THEN Sized(v) ELSE c

\* Setting a canvas dimension resets the context; ctx.scale(dpr, dpr) follows.
Rescaled(s2, c, v) == IF NeedsResize(c, v) THEN Dpr2(v) ELSE s2

\* --------------------------------------------------------- envelope
\* The per-ring values of the forEach body, as exact rationals: each operator
\* returns the value of the source times the unit named with it, so that the
\* arithmetic is integer.  progress = age / RING_LIFETIME throughout.
Max(a, b) == IF a >= b THEN a ELSE b

\* maxRadius = Math.max(w, h) * 0.8, times 5
MaxRadius(v) == 4 * Max(v.w, v.h)

\* currentRadius = 80 + progress * (maxRadius - 80), times RadiusUnit
RadiusUnit == 5 * RING_LIFETIME
CurrentRadius(age, v) == 80 * RadiusUnit + age * (MaxRadius(v) - 5 * 80)

\* Variant: the 0.7 factor left out.
OpacityUnscaled(age) ==
    10 * (IF 5 * age < RING_LIFETIME THEN age
          ELSE IF 5 * age > 4 * RING_LIFETIME THEN RING_LIFETIME - age
          ELSE RING_LIFETIME \div 5)

\* if (progress < 0.2) opacity = progress / 0.2
\* else if (progress > 0.8) opacity = 1 - (progress - 0.8) / 0.2
\* else opacity = 1;  opacity *= 0.7;  times OpacityUnit
OpacityUnit == 2 * RING_LIFETIME
Opacity(age) ==
    7 * (IF 5 * age < RING_LIFETIME THEN age
         ELSE IF 5 * age > 4 * RING_LIFETIME THEN RING_LIFETIME - age
         ELSE RING_LIFETIME \div 5)

\* Variant: the width shrinking with progress.
LineWidthShrinking(age) == RING_LIFETIME \div 5 + (RING_LIFETIME - age)

\* lineWidth = (2 + 10 * progress) * 5, times RING_LIFETIME / 50
LineWidth(age) == RING_LIFETIME \div 5 + age

\* Math.sin of an angle given in milliradians, in thousandths: Bhaskara's
\* rational approximation on each half period.
HalfSine(x) ==
    LET y == (x * (3142 - x)) \div 1000
    IN (16000 * y) \div (49361 - 4 * y)
Sin1000(mrad) ==
    LET x == mrad % 6284
    IN IF x <= 3142 THEN HalfSine(x) ELSE 0 - HalfSine(x - 3142)

\* const pulse = Math.sin(time * 0.002) * 10, in hundredths
Pulse(t) == Sin1000(2 * t)

\* shadowBlur = 20 + 20 * progress + pulse, times BlurUnit
BlurUnit == 50 * RING_LIFETIME
ShadowBlur(age, t) == 1000 * (RING_LIFETIME + age) + (RING_LIFETIME \div 2) * Pulse(t)

\* amplitude = (10 + 20 * progress) * (1 - progress * 0.2),
\* times RING_LIFETIME * RING_LIFETIME / 4
Amplitude(age) == (RING_LIFETIME \div 2 + age) * (5 * RING_LIFETIME - age)

\* Variant: no fallback, the stroke style left unset without conic gradients.
GradientNoFallback(t, cg) ==
    IF cg THEN [kind |-> "conic", angle |-> 3 * t, stops |-> COLOR_STOPS]
    ELSE [kind |-> "unset", color |-> ""]

\* let gradient = COLOR_STOPS[0].color;
\* if (ctx.createConicGradient) { createConicGradient(time * 0.0003, cx, cy); ... }
\* The start angle is in ten-thousandths of a radian.
Gradient(t, cg) ==
    IF cg THEN [kind |-> "conic", angle |-> 3 * t, stops |-> COLOR_STOPS]
    ELSE [kind |-> "flat", color |-> COLOR_STOPS[1].color]

\* --------------------------------------------------------- draw calls
Resize(c, v) == IF NeedsResize(c, v) THEN <<[op |-> "resize", arg |-> Dpr2(v)]>> ELSE <<>>
Clear == [op |-> "clearRect", arg |-> 0]
SetComposite(mode) == [op |-> "composite", arg |-> mode]

\* The spawn step and the expiry filter, as steps of the frame.
SpawnStep(last, t) == IF ShouldSpawn(t, last) THEN <<[op |-> "spawn", arg |-> t]>> ELSE <<>>
FilterStep(t) == [op |-> "filter", arg |-> t]

\* The stroke style of the frame is built.
GradientStep(t, cg) == [op |-> "gradient", arg |-> Gradient(t, cg)]

\* One run of the forEach body: the context is set up from the envelope of
\* the ring, a closed path of numSteps + 1 points is built and stroked.
Stroke(r, t, v, style) ==
    [op |-> "stroke", arg |-> r.pawnTime, age |-> t - r.pawnTime,
     strokeStyle |-> style, globalAlpha |-> Opacity(t - r.pawnTime),
     lineWidth |-> LineWidth(t - r.pawnTime),
     shadowBlur |-> ShadowBlur(t - r.pawnTime, t),
     shadowColor |-> COLOR_STOPS[1].color,
     currentRadius |-> CurrentRadius(t - r.pawnTime, v),
     amplitude |-> Amplitude(t - r.pawnTime),
     points |-> numSteps + 1, closed |-> TRUE]

\* Variants: a stroke style of its own for each ring; the ring spawned by
\* the call left for the next frame.
StrokesOwnStyle(rs, t, v, style) ==
    [i \in 1..Len(rs) |-> Stroke(rs[i], t, v, [style EXCEPT !.kind = IF i = 1 THEN @ ELSE "own"])]
StrokesSkipNew(rs, t, v, style) ==
    LET old == SelectSeq(rs, LAMBDA r : r.pawnTime < t)
    IN [i \in 1..Len(old) |-> Stroke(old[i], t, v, style)]

\* rings.forEach(ring => { ... ctx.stroke() })
Strokes(rs, t, v, style) == [i \in 1..Len(rs) |-> Stroke(rs[i], t, v, style)]

\* animationFrameId = requestAnimationFrame(render), as the last step.
RequestStep(handle) == [op |-> "request", arg |-> handle]

\* Variant: the composite mode restored before the rings are stroked.
FrameCallsRestoreEarly(rs, last, t, v, cg, handle) ==
    <<Clear, SetComposite("screen")>> \o SpawnStep(last, t)
        \o <<FilterStep(t), GradientStep(t, cg), SetComposite("source-over")>>
        \o Strokes(Advance(rs, last, t), t, v, Gradient(t, cg))
        \o <<RequestStep(handle)>>

\* The steps of one complete render call after the resize check, in program
\* order, from the rings and watermark it starts with.
FrameCalls(rs, last, t, v, cg, handle) ==
    <<Clear, SetComposite("screen")>> \o SpawnStep(last, t)
        \o <<FilterStep(t), GradientStep(t, cg)>>
        \o Strokes(Advance(rs, last, t), t, v, Gradient(t, cg))
        \o <<SetComposite("source-over"), RequestStep(handle)>>

\* The steps taken before the call at a site fails, k strokes having
\* succeeded.
FailedCalls(rs, last, t, v, cg, site, k) ==
    IF site = "clearRect" THEN <<>>
    ELSE <<Clear, SetComposite("screen")>> \o SpawnStep(last, t) \o <<FilterStep(t)>>
        \o (IF site = "stroke"
            THEN <<GradientStep(t, cg)>>
                 \o SubSeq(Strokes(Advance(rs, last, t), t, v, Gradient(t, cg)), 1, k)
            ELSE <<>>)

\* --------------------------------------------------------- browser
\* Variant: every request registers the callback twice.
RequestTwice(pending, handle) == pending \cup {handle, handle + 1}

\* requestAnimationFrame(render): a new handle, added to the callback list.
Request(pending, handle) == pending \cup {handle}

\* Variant: the cleanup cancels nothing.
CancelNothing(pending, id) == pending

\* cancelAnimationFrame(id)
Cancel(pending, id) == pending \ {id}

\* Variant: the handle of the new request is not stored.
FrameIdKept(old, handle) == old

\* animationFrameId = requestAnimationFrame(render)
FrameId(old, handle) == handle

\* --------------------------------------------------------- envelope probe
\* No envelope evaluation is under way.
NoProbe == [applied |-> FALSE]

\* Ring ages at which the envelope is evaluated: a coarse sweep of the
\* lifetime, and the neighbourhood of 0, of both opacity breakpoints, of the
\* middle and of the lifetime.
ProbeAges ==
    {k * ProbeStep : k \in 0..(RING_LIFETIME \div ProbeStep)}
        \cup {1, RING_LIFETIME \div 5 - 1, RING_LIFETIME \div 5, RING_LIFETIME \div 5 + 1,
              RING_LIFETIME \div 2, 4 * (RING_LIFETIME \div 5) - 1,
              4 * (RING_LIFETIME \div 5), 4 * (RING_LIFETIME \div 5) + 1,
              RING_LIFETIME - 1, RING_LIFETIME}

\* Window sizes for the envelope: those of the frames, one whose maxRadius is
\* exactly 80 and one whose maxRadius is below 80.
ProbeViewports ==
    Viewports \cup {[w |-> 100, h |-> 60, dpr2 |-> 2], [w |-> 80, h |-> 60, dpr2 |-> 2]}

\* Frame times for the envelope.
ProbeTimes == {0, 500, 785, 2356}

\* The values the forEach body computes for a ring of the given age.
Envelope(age, v, t) ==
    [currentRadius |-> CurrentRadius(age, v), opacity |-> Opacity(age),
     lineWidth |-> LineWidth(age), shadowBlur |-> ShadowBlur(age, t),
     amplitude |-> Amplitude(age)]

\* ------------------------------------------------------------- host page
\* No engine has been built yet.
NoInstance == mounts = 0 /\ firstHandle = 0

\* Texts are sequences of characters.  What the user can type into the
\* content field or the chat field, and what a file can yield.
Typed == {<<>>, <<" ">>, <<"a">>}
Extracted == {<<>>, <<"a">>}

\* String.prototype.trim
IsSpace(c) == c \in {" ", "\n"}
RECURSIVE TrimStart(_)
TrimStart(s) == IF s # <<>> /\ IsSpace(Head(s)) THEN TrimStart(Tail(s)) ELSE s
RECURSIVE TrimEnd(_)
TrimEnd(s) ==
    IF s # <<>> /\ IsSpace(s[Len(s)]) THEN TrimEnd(SubSeq(s, 1, Len(s) - 1)) ELSE s
Trim(s) == TrimEnd(TrimStart(s))

\* prev.content + (prev.content ? "\n\n" : "") + extractedText
Appended(content, text) ==
    content \o (IF content # <<>> THEN <<"\n", "\n">> ELSE <<>>) \o text

\* useState initial values of App.
PageState == [content |-> <<>>, status |-> "IDLE", error |-> "null", result |-> "null"]

\* What a render of App closes over and puts into the DOM.
Snapshot(st, input, chatting) ==
    [content |-> st.content, status |-> st.status, result |-> st.result,
     chatInput |-> input, isChatting |-> chatting]

PageInit ==
    /\ state = PageState
    /\ chatInput = <<>>
    /\ chatHistory = <<>>
    /\ isChatting = FALSE
    /\ view = Snapshot(PageState, <<>>, FALSE)
    /\ inFlight = [upload |-> 0, analyze |-> 0, chat |-> 0]

\* --------------------------------------------------------- initial state
\* The component is rendered; its effect has not run yet.
Init ==
    /\ clock \in StartTimes
    /\ engine = "None"
    /\ now = 0
    /\ rings = <<>>
    /\ lastSpawnTime = 0
    /\ animationFrameId = 0
    /\ pendingFrames = {}
    /\ nextHandle = 1
    /\ conic = TRUE
    /\ composite = "source-over"
    /\ viewport = NoViewport
    /\ canvas = DefaultCanvas
    /\ scale2 = 2
    /\ time = 0
    /\ frames = 0
    /\ drawLog = <<>>
    /\ created = {}
    /\ probe = NoProbe
    /\ NoInstance
    /\ PageInit

\* --------------------------------------------------------- actions
\* useEffect body: the surface is there, the closure is built and the first
\* frame is requested.
Mount ==
    /\ engine = "None"
    /\ engine' = "Running"
    /\ now' = clock
    /\ rings' = Preseed(clock)
    /\ created' = {Preseed(clock)[i] : i \in 1..Len(PreseedAges)}
    /\ lastSpawnTime' = clock
    /\ animationFrameId' = FrameId(animationFrameId, nextHandle)
    /\ pendingFrames' = Request(pendingFrames, nextHandle)
    /\ nextHandle' = nextHandle + 1
    /\ mounts' = mounts + 1
    /\ firstHandle' = nextHandle
    /\ UNCHANGED <<clock, conic, composite, viewport, canvas, scale2, time, frames,
                   drawLog, probe, pageVars>>

\* Variant: the first frame requested before the surface is looked at.
MountNoSurfaceLate(surface) ==
    /\ surface # "ok"
    /\ engine = "None"
    /\ engine' = "NoSurface"
    /\ animationFrameId' = nextHandle
    /\ pendingFrames' = pendingFrames \cup {nextHandle}
    /\ nextHandle' = nextHandle + 1
    /\ UNCHANGED <<clock, now, rings, lastSpawnTime, conic, composite, viewport, canvas,
                   scale2, time, frames, drawLog, created, probe, instanceVars, pageVars>>

\* useEffect body when canvasRef.current or getContext('2d') is null: return.
MountNoSurface(surface) ==
    /\ surface # "ok"
    /\ engine = "None"
    /\ engine' = "NoSurface"
    /\ UNCHANGED <<clock, now, rings, lastSpawnTime, animationFrameId, pendingFrames,
                   nextHandle, conic, composite, viewport, canvas, scale2, time, frames,
                   drawLog, created, probe, instanceVars, pageVars>>

\* One complete run of render(time) for the pending callback cb, the clock
\* source reading t and the window being v.
render(cb, t, v) ==
    /\ cb \in pendingFrames
    /\ clock' = t
    /\ time' = t
    /\ viewport' = v
    /\ canvas' = Resized(canvas, v)
    /\ scale2' = Rescaled(scale2, canvas, v)
    /\ rings' = Advance(rings, lastSpawnTime, t)
    /\ lastSpawnTime' = Watermark(lastSpawnTime, t)
    /\ created' = IF ShouldSpawn(t, lastSpawnTime)
                  THEN created \cup {Ring(t)} ELSE created
    /\ drawLog' = Resize(canvas, v)
                    \o FrameCalls(rings, lastSpawnTime, t, v, conic, nextHandle)
    /\ composite' = "source-over"
    /\ animationFrameId' = FrameId(animationFrameId, nextHandle)
    /\ pendingFrames' = Request(pendingFrames \ {cb}, nextHandle)
    /\ nextHandle' = nextHandle + 1
    /\ frames' = frames + 1
    /\ UNCHANGED <<engine, now, conic, probe, instanceVars, pageVars>>

\* A run of render(time) in which the draw call at site throws, after k
\* strokes: nothing catches it, so the statements after the call do not run.
renderThrows(cb, t, v, site, k) ==
    /\ cb \in pendingFrames
    /\ clock' = t
    /\ time' = t
    /\ viewport' = v
    /\ canvas' = Resized(canvas, v)
    /\ scale2' = Rescaled(scale2, canvas, v)
    /\ IF site = "clearRect"
       THEN UNCHANGED <<rings, lastSpawnTime, created, composite>>
       ELSE /\ rings' = Advance(rings, lastSpawnTime, t)
            /\ lastSpawnTime' = Watermark(lastSpawnTime, t)
            /\ created' = IF ShouldSpawn(t, lastSpawnTime)
                          THEN created \cup {Ring(t)} ELSE created
            /\ composite' = "screen"
    /\ site = "createConicGradient" => conic
    /\ IF site = "stroke" THEN k \in 0..(Len(rings') - 1) ELSE k = 0
    /\ drawLog' = Resize(canvas, v)
                    \o FailedCalls(rings, lastSpawnTime, t, v, conic, site, k)
    /\ pendingFrames' = pendingFrames \ {cb}
    /\ frames' = frames + 1
    /\ UNCHANGED <<engine, now, animationFrameId, nextHandle, conic, probe, instanceVars, pageVars>>

\* The browser runs a pending animation frame callback, d after the clock
\* source was last read.  It does so whether or not the effect was cleaned up:
\* only cancelAnimationFrame takes a callback off the list.
Tick ==
    /\ frames < MaxFrames
    /\ \E d \in Delays, v \in Viewports :
        /\ clock + d <= MaxTime
        /\ \E cb \in pendingFrames : render(cb, clock + d, v)

\* The same, a draw call failing.
TickThrows ==
    /\ frames < MaxFaultFrames
    /\ \E d \in Delays, v \in Viewports, site \in ThrowSites, k \in 0..Len(rings) :
        /\ clock + d <= MaxTime
        /\ \E cb \in pendingFrames : renderThrows(cb, clock + d, v, site, k)

\* The effect cleanup: cancelAnimationFrame(animationFrameId).
Unmount ==
    /\ engine = "Running"
    /\ engine' = "Stopped"
    /\ pendingFrames' = Cancel(pendingFrames, animationFrameId)
    /\ UNCHANGED <<clock, now, rings, lastSpawnTime, animationFrameId, nextHandle,
                   conic, composite, viewport, canvas, scale2, time, frames, drawLog,
                   created, probe, instanceVars, pageVars>>

Next ==
    \/ Mount
    \/ \E s \in Surfaces : MountNoSurface(s)
    \/ Tick
    \/ Unmount

Spec == Init /\ [][Next]_vars

\* The cold start: the engine constructed at time 0 with no pre-warmed ring,
\* the watermark set to the start time as in the source, the first frame
\* requested.
InitCold ==
    /\ clock = 0
    /\ engine = "Running"
    /\ now = 0
    /\ rings = <<>>
    /\ lastSpawnTime = 0
    /\ animationFrameId = 1
    /\ pendingFrames = Request({}, 1)
    /\ nextHandle = 2
    /\ conic = TRUE
    /\ composite = "source-over"
    /\ viewport = NoViewport
    /\ canvas = DefaultCanvas
    /\ scale2 = 2
    /\ time = 0
    /\ frames = 0
    /\ drawLog = <<>>
    /\ created = {}
    /\ probe = NoProbe
    /\ mounts = 1
    /\ firstHandle = 1
    /\ PageInit

\* Ticks at every multiple of SPAWN_INTERVAL, the first at time 0.
TickCold ==
    /\ frames < MaxColdFrames
    /\ \E v \in Viewports, cb \in pendingFrames :
        render(cb, IF frames = 0 THEN 0 ELSE clock + SPAWN_INTERVAL, v)

NextCold == TickCold \/ Unmount
SpecCold == InitCold /\ [][NextCold]_vars

\* The same program on a surface without conic gradients.
InitFallback ==
    /\ clock \in StartTimes
    /\ engine = "None"
    /\ now = 0
    /\ rings = <<>>
    /\ lastSpawnTime = 0
    /\ animationFrameId = 0
    /\ pendingFrames = {}
    /\ nextHandle = 1
    /\ conic = FALSE
    /\ composite = "source-over"
    /\ viewport = NoViewport
    /\ canvas = DefaultCanvas
    /\ scale2 = 2
    /\ time = 0
    /\ frames = 0
    /\ drawLog = <<>>
    /\ created = {}
    /\ probe = NoProbe
    /\ NoInstance
    /\ PageInit

\* Frames on that surface; MaxFallbackFrames of them are explored.
TickFallback ==
    /\ frames < MaxFallbackFrames
    /\ \E d \in Delays, v \in Viewports :
        /\ clock + d <= MaxTime
        /\ \E cb \in pendingFrames : render(cb, clock + d, v)

NextFallback == Mount \/ TickFallback \/ Unmount
SpecFallback == InitFallback /\ [][NextFallback]_vars

\* The envelope of the forEach body as a pure function: two ages of one ring
\* (age <= older), a window size and a frame time are drawn, then evaluated.
InitEnvelope ==
    /\ clock = 0
    /\ engine = "None"
    /\ now = 0
    /\ rings = <<>>
    /\ lastSpawnTime = 0
    /\ animationFrameId = 0
    /\ pendingFrames = {}
    /\ nextHandle = 1
    /\ conic = TRUE
    /\ composite = "source-over"
    /\ viewport = NoViewport
    /\ canvas = DefaultCanvas
    /\ scale2 = 2
    /\ time = 0
    /\ frames = 0
    /\ drawLog = <<>>
    /\ created = {}
    /\ \E a \in ProbeAges, o \in ProbeAges, v \in ProbeViewports, t \in ProbeTimes :
        /\ a <= o
        /\ probe = [applied |-> FALSE, age |-> a, older |-> o, v |-> v, t |-> t]
    /\ NoInstance
    /\ PageInit

ApplyEnvelope ==
    /\ ~probe.applied
    /\ probe' = [probe EXCEPT !.applied = TRUE] @@
                 [young |-> Envelope(probe.age, probe.v, probe.t),
                  old |-> Envelope(probe.older, probe.v, probe.t)]
    /\ UNCHANGED <<clock, engine, now, rings, lastSpawnTime, animationFrameId,
                   pendingFrames, nextHandle, conic, composite, viewport, canvas,
                   scale2, time, frames, drawLog, created, instanceVars, pageVars>>

NextEnvelope == ApplyEnvelope
SpecEnvelope == InitEnvelope /\ [][NextEnvelope]_vars

\* The same program on a surface whose draw calls can throw.
NextFault == Next \/ TickThrows
SpecFault == Init /\ [][NextFault]_vars

\* The component mounted again after its cleanup ran: the effect body runs
\* anew and builds its own now, rings, lastSpawnTime and animationFrameId;
\* the canvas is a new element, or the old one when React re-runs the effect
\* on the same element.
Remount ==
    /\ engine = "Stopped"
    /\ mounts < MaxMounts
    /\ engine' = "Running"
    /\ now' = clock
    /\ rings' = Preseed(clock)
    /\ created' = created \cup {Preseed(clock)[i] : i \in 1..Len(PreseedAges)}
    /\ lastSpawnTime' = clock
    /\ animationFrameId' = FrameId(0, nextHandle)
    /\ pendingFrames' = Request(pendingFrames, nextHandle)
    /\ nextHandle' = nextHandle + 1
    /\ mounts' = mounts + 1
    /\ firstHandle' = nextHandle
    /\ \E fresh \in BOOLEAN :
        /\ canvas' = IF fresh THEN DefaultCanvas ELSE canvas
        /\ scale2' = IF fresh THEN 2 ELSE scale2
    /\ UNCHANGED <<clock, conic, composite, viewport, time, frames, drawLog, probe,
                   pageVars>>

\* Frames of either engine; MaxRemountFrames of them are explored.
TickRemount ==
    /\ frames < MaxRemountFrames
    /\ \E d \in Delays, v \in Viewports :
        /\ clock + d <= MaxTime
        /\ \E cb \in pendingFrames : render(cb, clock + d, v)

NextRemount == Mount \/ TickRemount \/ Unmount \/ Remount
SpecRemount == Init /\ [][NextRemount]_vars

\* The engine left running: the browser keeps running the pending callback,
\* each time with a later timestamp, up to the end of the explored clock
\* range, and the component is never unmounted.
\* The gaps explored are one grid step, a step more than the spawn interval
\* and a step more than the lifetime.
LiveDelays ==
    {GridMs, (SPAWN_INTERVAL \div GridMs + 1) * GridMs, (RING_LIFETIME \div GridMs + 1) * GridMs}

TickLive ==
    \E d \in LiveDelays, v \in Viewports :
        /\ clock + d <= MaxTime
        /\ \E cb \in pendingFrames : render(cb, clock + d, v)

NextLive == Mount \/ TickLive
SpecLive == Init /\ [][NextLive]_vars /\ WF_vars(Mount) /\ WF_vars(TickLive)

\* ------------------------------------------------- host page: App.tsx
\* React commits a render: the handlers and the DOM attributes now hold the
\* current state values.
Commit ==
    /\ view # Snapshot(state, chatInput, isChatting)
    /\ view' = Snapshot(state, chatInput, isChatting)
    /\ UNCHANGED <<state, chatInput, chatHistory, isChatting, inFlight, auraVars, instanceVars>>

\* The input section takes pointer input unless the committed status is
\* SUCCESS (pointer-events-none); the chat form exists when the committed
\* render has status SUCCESS and a result.
InputShown == view.status # "SUCCESS"
ChatShown == view.status = "SUCCESS" /\ view.result # "null"

\* textarea onChange: setState(prev => ({ ...prev, content: e.target.value }))
TypeContent ==
    /\ InputShown
    /\ \E text \in Typed :
        /\ text # state.content
        /\ state' = [state EXCEPT !.content = text]
    /\ UNCHANGED <<chatInput, chatHistory, isChatting, view, inFlight, auraVars, instanceVars>>

\* handleFileUpload up to its first await: a file was chosen or dropped.
handleFileUpload ==
    /\ InputShown
    /\ inFlight.upload < MaxPending
    /\ state' = [state EXCEPT !.status = "LOADING", !.error = "null"]
    /\ inFlight' = [inFlight EXCEPT !.upload = @ + 1]
    /\ UNCHANGED <<chatInput, chatHistory, isChatting, view, auraVars, instanceVars>>

\* handleFileUpload after its awaits: the text was extracted ...
UploadResolved ==
    /\ inFlight.upload > 0
    /\ \E text \in Extracted :
        /\ Len(Appended(state.content, text)) <= MaxContent
        /\ state' = [state EXCEPT !.content = Appended(state.content, text),
                                  !.status = "IDLE"]
    /\ inFlight' = [inFlight EXCEPT !.upload = @ - 1]
    /\ UNCHANGED <<chatInput, chatHistory, isChatting, view, auraVars, instanceVars>>

\* ... or reading the file threw (the catch block).
UploadRejected ==
    /\ inFlight.upload > 0
    /\ state' = [state EXCEPT !.error = "upload", !.status = "IDLE"]
    /\ inFlight' = [inFlight EXCEPT !.upload = @ - 1]
    /\ UNCHANGED <<chatInput, chatHistory, isChatting, view, auraVars, instanceVars>>

\* handleAnalyze up to its await: a click on the button, which the committed
\* render disables while its status is LOADING.
handleAnalyze ==
    /\ InputShown
    /\ view.status # "LOADING"
    /\ IF Trim(view.content) = <<>>
       THEN /\ state' = [state EXCEPT !.error = "errorPathway"]
            /\ state' # state
            /\ UNCHANGED <<chatHistory, inFlight, auraVars, instanceVars>>
       ELSE /\ inFlight.analyze < MaxPending
            /\ state' = [state EXCEPT !.status = "LOADING", !.error = "null",
                                      !.result = "null"]
            /\ chatHistory' = <<>>
            /\ inFlight' = [inFlight EXCEPT !.analyze = @ + 1]
    /\ UNCHANGED <<chatInput, isChatting, view, auraVars, instanceVars>>

\* handleAnalyze after its await: analyzeChatHistory resolved ...
AnalyzeResolved ==
    /\ inFlight.analyze > 0
    /\ state' = [state EXCEPT !.status = "SUCCESS", !.result = "result"]
    /\ inFlight' = [inFlight EXCEPT !.analyze = @ - 1]
    /\ UNCHANGED <<chatInput, chatHistory, isChatting, view, auraVars, instanceVars>>

\* ... or rejected.
AnalyzeRejected ==
    /\ inFlight.analyze > 0
    /\ state' = [state EXCEPT !.status = "ERROR", !.error = "analysis"]
    /\ inFlight' = [inFlight EXCEPT !.analyze = @ - 1]
    /\ UNCHANGED <<chatInput, chatHistory, isChatting, view, auraVars, instanceVars>>

\* chat input onChange: setChatInput(e.target.value); disabled={isChatting}
TypeChat ==
    /\ ChatShown
    /\ ~view.isChatting
    /\ \E text \in Typed :
        /\ text # chatInput
        /\ chatInput' = text
    /\ UNCHANGED <<state, chatHistory, isChatting, view, inFlight, auraVars, instanceVars>>

\* handleSendMessage up to its await: a submit of the chat form.
\* if (!chatInput.trim() || isChatting) return, on the values of the
\* committed render.
handleSendMessage ==
    /\ ChatShown
    /\ ~(Trim(view.chatInput) = <<>> \/ view.isChatting)
    /\ Len(chatHistory) < MaxChat
    /\ inFlight.chat < MaxPending
    /\ chatInput' = <<>>
    /\ chatHistory' = Append(chatHistory, "user")
    /\ isChatting' = TRUE
    /\ inFlight' = [inFlight EXCEPT !.chat = @ + 1]
    /\ UNCHANGED <<state, view, auraVars, instanceVars>>

\* handleSendMessage after its await: sendMessage resolved or rejected; both
\* branches append an AI message, and finally resets isChatting.
ChatSettled ==
    /\ inFlight.chat > 0
    /\ chatHistory' = Append(chatHistory, "ai")
    /\ isChatting' = FALSE
    /\ inFlight' = [inFlight EXCEPT !.chat = @ - 1]
    /\ UNCHANGED <<state, chatInput, view, auraVars, instanceVars>>

NextPage ==
    \/ Commit
    \/ TypeContent
    \/ handleFileUpload
    \/ UploadResolved
    \/ UploadRejected
    \/ handleAnalyze
    \/ AnalyzeResolved
    \/ AnalyzeRejected
    \/ TypeChat
    \/ handleSendMessage
    \/ ChatSettled

SpecPage == Init /\ [][NextPage]_vars

\* ====================================================================
\* Properties
\* ====================================================================
Range(f) == {f[i] : i \in DOMAIN f}

\* The pre-warmed rings, and the rings spawned by render calls.
PreseededRings == {r \in created : r.pawnTime < now}
SpawnedRings == {r \in created : r.pawnTime >= now}

\* A render call has completed.
Ticked == frames > 0

\* C1: on every tick at time t, if t - lastSpawnTime >= spawnInterval then
\* exactly one ring with spawnTime = t is appended to the RingSet and
\* lastSpawnTime becomes t; otherwise no ring is appended and lastSpawnTime is
\* unchanged.  A tick at exactly lastSpawnTime + spawnInterval spawns a ring.
C1_SpawnRule ==
    [][frames' = frames + 1 =>
        IF time' - lastSpawnTime >= SPAWN_INTERVAL
        THEN /\ lastSpawnTime' = time'
             /\ created' = created \cup {Ring(time')}
             /\ Len(rings') >= 1
             /\ rings'[Len(rings')] = Ring(time')
        ELSE /\ lastSpawnTime' = lastSpawnTime
             /\ created' = created
             /\ Range(rings') \subseteq Range(rings)]_vars

\* C2: after the effect cleanup no draw call is issued again, whenever the
\* cleanup ran and however late a frame would fire, and the stopped engine
\* never runs again.
C2_StopThenNoDraw ==
    [][engine = "Stopped" =>
        /\ frames' = frames
        /\ drawLog' = drawLog
        /\ engine' = "Stopped"]_vars

C2_Witness == engine = "Stopped" /\ frames >= 1 /\ Len(drawLog) >= 4

\* C3: right after the cleanup no next-tick request is pending, because while
\* running the only pending request is the latest one issued and its handle
\* is the one animationFrameId holds.
C3_NoDanglingCallback ==
    /\ engine = "Stopped" => pendingFrames = {}
    /\ engine = "Running" =>
        /\ pendingFrames = {animationFrameId}
        /\ animationFrameId = nextHandle - 1

C3_Witness == engine = "Stopped" /\ frames >= 2 /\ pendingFrames = {}

\* C4: after every tick at time t the RingSet is exactly the set of rings
\* ever created (pre-warmed or spawned) whose age t - spawnTime is below the
\* lifetime, and the active ring count is the number of such rings.
C4_ActiveIffYoung ==
    Ticked =>
        /\ Range(rings) = {r \in created : time - r.pawnTime < RING_LIFETIME}
        /\ Len(rings) = Cardinality({r \in created : time - r.pawnTime < RING_LIFETIME})

C4_Witness ==
    /\ Ticked
    /\ \E r \in PreseededRings : r \notin Range(rings)
    /\ \E r \in SpawnedRings : r \notin Range(rings)
    /\ \E r \in SpawnedRings : r \in Range(rings)

\* C5: any two rings spawned by the engine have spawn times at least
\* spawnInterval apart, and a tick spawns at most one ring however long it
\* was delayed: the rings spawned never outnumber the ticks.
C5_MinSpawnGap ==
    /\ \A r1, r2 \in SpawnedRings :
        r1.pawnTime < r2.pawnTime => r2.pawnTime - r1.pawnTime >= SPAWN_INTERVAL
    /\ Cardinality(SpawnedRings) <= frames

\* Two ticks that span three spawn intervals and spawned one ring each.
C5_Witness ==
    /\ frames = 2
    /\ Cardinality(SpawnedRings) = 2
    /\ time - now >= 3 * SPAWN_INTERVAL

\* C6: the RingSet is sorted by ascending spawnTime in every reachable state,
\* and the strokes of a frame are issued in that order.
StrokeArgs(log) ==
    LET strokes == SelectSeq(log, LAMBDA c : c.op = "stroke")
    IN [i \in 1..Len(strokes) |-> strokes[i].arg]

C6_AscendingSpawnOrder ==
    /\ \A i, j \in 1..Len(rings) : i < j => rings[i].pawnTime < rings[j].pawnTime
    /\ Ticked => StrokeArgs(drawLog) = [i \in 1..Len(rings) |-> rings[i].pawnTime]

C6_Witness ==
    /\ Ticked
    /\ Len(rings) >= 3
    /\ rings[1] \in PreseededRings
    /\ rings[Len(rings)] \in SpawnedRings
    /\ \E r \in PreseededRings : r \notin Range(rings)

\* C7: with rings pre-warmed at ages 10000, 6000 and 2000 and the watermark
\* at the start time T0, a tick at T0 + 1500 leaves the three pre-warmed rings
\* active, no tick before T0 + 3500 spawns, and the tick at T0 + 3500 spawns.
C7_SeededScenario ==
    Ticked =>
        /\ time = now + 1500 =>
            {Ring(now - 10000), Ring(now - 6000), Ring(now - 2000)} \subseteq Range(rings)
        /\ time < now + 3500 => SpawnedRings = {}
        /\ time = now + 3500 =>
            /\ Ring(now + 3500) \in Range(rings)
            /\ lastSpawnTime = now + 3500

CeilDiv(a, b) == (a + b - 1) \div b
MaxActive == CeilDiv(RING_LIFETIME, SPAWN_INTERVAL) + 1

C9_ActiveRingBound == Len(rings) <= MaxActive

C9_Witness == Ticked /\ Len(rings) = MaxActive - 1 /\ SpawnedRings # {}

\* C10: a draw call that throws during a tick degrades that frame only: the
\* engine keeps running, the next tick is requested, the composite mode is
\* restored, and rings and lastSpawnTime stay valid.
C10_NoFatalError ==
    (engine = "Running" /\ Ticked) =>
        /\ pendingFrames # {}
        /\ composite = "source-over"
        /\ \A i \in 1..Len(rings) : time - rings[i].pawnTime < RING_LIFETIME
        /\ lastSpawnTime <= time

\* Positions in a frame log of the steps of one kind, and of its strokes.
OpsAt(log, o) == {i \in DOMAIN log : log[i].op = o}
CompositeAt(log, mode) == {i \in OpsAt(log, "composite") : log[i].arg = mode}
StrokesOf(log) == SelectSeq(log, LAMBDA c : c.op = "stroke")

\* C11: while running at most one next-tick request is pending, a tick runs
\* to its end with no request of the instance pending (its own callback is off
\* the list and the only request it makes is its last step), and every
\* completed tick issues exactly one request.
C11_OnePendingRequest ==
    /\ engine = "Running" => Cardinality(pendingFrames) = 1
    /\ engine \in {"Running", "Stopped"} => nextHandle = frames + 2
    /\ Ticked =>
        /\ Cardinality(OpsAt(drawLog, "request")) = 1
        /\ OpsAt(drawLog, "request") = {Len(drawLog)}
        /\ engine = "Running" => pendingFrames = {drawLog[Len(drawLog)].arg}

C11_Witness == engine = "Running" /\ frames >= 2 /\ Cardinality(pendingFrames) = 1

\* C12: within a tick the resize check precedes the clear; the clear and the
\* glow composite mode precede every stroke; spawn and expiry precede the
\* gradient and every stroke; the composite mode is restored after the last
\* stroke; the next tick is requested last.  Between ticks the composite mode
\* is the default.
C12_StepOrder ==
    /\ composite = "source-over"
    /\ Ticked =>
        LET log == drawLog
            first(o) == CHOOSE i \in OpsAt(log, o) : \A j \in OpsAt(log, o) : i <= j
        IN /\ Cardinality(OpsAt(log, "clearRect")) = 1
           /\ Cardinality(OpsAt(log, "filter")) = 1
           /\ Cardinality(OpsAt(log, "gradient")) = 1
           /\ Cardinality(CompositeAt(log, "screen")) = 1
           /\ Cardinality(CompositeAt(log, "source-over")) = 1
           /\ \A r \in OpsAt(log, "resize") : r < first("clearRect")
           /\ first("clearRect") < first("filter")
           /\ \A m \in CompositeAt(log, "screen") : m < first("filter")
           /\ \A x \in OpsAt(log, "spawn") : x < first("filter")
           /\ first("filter") < first("gradient")
           /\ \A k \in OpsAt(log, "stroke") :
                /\ first("clearRect") < k
                /\ first("gradient") < k
                /\ \A m \in CompositeAt(log, "screen") : m < k
                /\ \A m \in CompositeAt(log, "source-over") : k < m
           /\ \A m \in CompositeAt(log, "source-over") : m < Len(log)
           /\ log[Len(log)].op = "request"

C12_Witness ==
    /\ Ticked
    /\ OpsAt(drawLog, "resize") # {}
    /\ OpsAt(drawLog, "spawn") # {}
    /\ Cardinality(OpsAt(drawLog, "stroke")) >= 3

\* C13: every ring that is stroked has an age of at least 0 and strictly
\* below the lifetime, so the envelope never sees progress >= 1.
C13_RemovalBeforeDraw ==
    \A k \in OpsAt(drawLog, "stroke") :
        /\ 0 <= drawLog[k].age
        /\ drawLog[k].age < RING_LIFETIME

\* A frame that strokes a ring on its last grid step and a ring just spawned.
C13_Witness ==
    /\ \E k \in OpsAt(drawLog, "stroke") : drawLog[k].age = RING_LIFETIME - GridMs
    /\ \E k \in OpsAt(drawLog, "stroke") : drawLog[k].age = 0

\* C14: with no canvas element or no 2D context the start is a no-op: no
\* ring exists, no tick is scheduled, nothing is drawn, and there is nothing
\* for an unmount to cancel.
C14_FailSoftStart ==
    engine = "NoSurface" =>
        /\ rings = <<>>
        /\ created = {}
        /\ pendingFrames = {}
        /\ animationFrameId = 0
        /\ nextHandle = 1
        /\ frames = 0
        /\ drawLog = <<>>
        /\ ~ENABLED Unmount

C14_Witness == engine = "NoSurface" /\ pendingFrames = {} /\ frames = 0

\* C15: in a tick on a surface without conic gradients every ring of the
\* frame is stroked with the flat color of the first color stop, every ring is
\* stroked, and the next tick is requested.
C15_GradientFallback ==
    (Ticked /\ ~conic) =>
        /\ \A k \in OpsAt(drawLog, "stroke") :
            /\ drawLog[k].strokeStyle.kind = "flat"
            /\ drawLog[k].strokeStyle.color = "#00f3ff"
        /\ Len(StrokesOf(drawLog)) = Len(rings)
        /\ drawLog[Len(drawLog)].op = "request"
        /\ engine = "Running" => pendingFrames # {}

C15_Witness == Ticked /\ ~conic /\ engine = "Running" /\ Len(rings) >= 3

\* C16: the radius grows with age, is the base radius 80 at age 0 and stays
\* below maxRadius = 0.8 * max(width, height) for every age under the
\* lifetime, for every viewport size.  (Radii in units of 1 / RadiusUnit.)
C16_RadiusEnvelope ==
    probe.applied =>
        LET maxRadius == 4 * Max(probe.v.w, probe.v.h) * RING_LIFETIME
        IN /\ probe.young.currentRadius <= probe.old.currentRadius
           /\ probe.age = 0 => probe.young.currentRadius = 80 * 5 * RING_LIFETIME
           /\ probe.age < RING_LIFETIME => probe.young.currentRadius < maxRadius

\* C17: the opacity rises linearly from 0 over the first fifth of the
\* lifetime, holds 0.7 up to four fifths, falls linearly to 0 at the lifetime;
\* it has no jump and stays within [0, 0.7].  (Opacity in units of
\* 1 / (2 * RING_LIFETIME), so 0.7 is 7 * RING_LIFETIME / 5.)
C17_OpacityEnvelope ==
    probe.applied =>
        LET a == probe.age
            o == probe.young.opacity
            d == probe.old.opacity - probe.young.opacity
        IN /\ 5 * a < RING_LIFETIME => o = 7 * a
           /\ (RING_LIFETIME <= 5 * a /\ 5 * a <= 4 * RING_LIFETIME)
                => 5 * o = 7 * RING_LIFETIME
           /\ 5 * a > 4 * RING_LIFETIME => o = 7 * (RING_LIFETIME - a)
           /\ a \in {0, RING_LIFETIME} => o = 0
           /\ 0 <= o /\ 5 * o <= 7 * RING_LIFETIME
           /\ d <= 7 * (probe.older - a) /\ 0 - d <= 7 * (probe.older - a)

C17_Witness ==
    /\ probe.applied
    /\ 5 * probe.age < RING_LIFETIME /\ probe.age > 0
    /\ 5 * probe.older > 4 * RING_LIFETIME /\ probe.older < RING_LIFETIME

\* C18: of two rings stroked in one frame the older one has the larger
\* stroke width and the larger blur, and their blur difference is the
\* progress difference times 20, whatever the frame time.  (Width in units of
\* RING_LIFETIME / 50, blur in units of 1 / BlurUnit.)
C18_WidthBlurOrdering ==
    \A i, j \in OpsAt(drawLog, "stroke") :
        LET x == drawLog[i]
            y == drawLog[j]
        IN /\ x.lineWidth = RING_LIFETIME \div 5 + x.age
           /\ x.age >= y.age =>
                /\ x.lineWidth >= y.lineWidth
                /\ x.shadowBlur >= y.shadowBlur
                /\ x.shadowBlur - y.shadowBlur = 20 * 50 * (x.age - y.age)
           /\ x.age > y.age =>
                /\ x.lineWidth > y.lineWidth
                /\ x.shadowBlur > y.shadowBlur

\* A frame with three rings of different ages at a time when the pulse is
\* not zero.
C18_Witness ==
    /\ Ticked
    /\ Pulse(time) # 0
    /\ Cardinality({drawLog[k].age : k \in OpsAt(drawLog, "stroke")}) >= 3

\* C20: a tick leaves the ring list and the spawn watermark as the spawn
\* rule and the expiry rule alone make them from the old list, the old
\* watermark and the tick time, whatever viewport the tick sees.
C20_ViewportIndependence ==
    [][frames' = frames + 1 =>
        LET spawn == time' - lastSpawnTime > SPAWN_INTERVAL
            pushed == IF spawn THEN Append(rings, [pawnTime |-> time']) ELSE rings
        IN /\ rings' = SelectSeq(pushed, LAMBDA r : time' - r.pawnTime < RING_LIFETIME)
           /\ lastSpawnTime' = IF spawn THEN time' ELSE lastSpawnTime]_vars

\* A tick later than the first that finds the viewport changed and spawns.
C20_Witness ==
    /\ frames >= 2
    /\ OpsAt(drawLog, "resize") # {}
    /\ OpsAt(drawLog, "spawn") # {}
    /\ rings # <<>>

\* C21: an engine started after a stop begins with its own three pre-warmed
\* rings (ages 10000, 6000, 2000 at its own start time) and a watermark equal
\* to its own start time, whatever the previous engine did; from then on
\* exactly one callback is pending and every render call is run from a
\* callback the latest engine requested.
C21_FreshInstance ==
    [][/\ mounts' = mounts + 1 =>
            /\ now' = clock'
            /\ rings' = <<[pawnTime |-> now' - 10000], [pawnTime |-> now' - 6000],
                          [pawnTime |-> now' - 2000]>>
            /\ lastSpawnTime' = now'
            /\ pendingFrames' = {firstHandle'}
       /\ frames' = frames + 1 =>
            /\ pendingFrames \ pendingFrames' # {}
            /\ \A h \in pendingFrames \ pendingFrames' : h >= firstHandle
            /\ Cardinality(pendingFrames') = 1
            /\ \A h \in pendingFrames' : h >= firstHandle]_vars

\* The second engine, started later than the first and after the first drew
\* and spawned, has ticked.
C21_Witness ==
    /\ mounts = 2
    /\ engine = "Running"
    /\ now > GridMs
    /\ frames >= 2
    /\ time >= now
    /\ animationFrameId > firstHandle
    /\ \E r \in created : r.pawnTime > GridMs /\ r.pawnTime < now

\* C22: a tick whose viewport (width, height, devicePixelRatio) is that of
\* the previous tick does not assign the canvas dimensions and does not apply
\* the scale again, fractional ratios included.
C22_ResizeOnlyOnChange ==
    [][(frames >= 1 /\ frames' = frames + 1 /\ viewport' = viewport) =>
            /\ OpsAt(drawLog', "resize") = {}
            /\ canvas' = canvas
            /\ scale2' = scale2]_vars

C24_OneStrokePerRing ==
    Ticked =>
        /\ StrokeArgs(drawLog) = [i \in 1..Len(rings) |-> rings[i].pawnTime]
        /\ \A k \in OpsAt(drawLog, "stroke") :
            /\ drawLog[k].closed
            /\ time - drawLog[k].arg < RING_LIFETIME
        /\ \A r \in created :
            time - r.pawnTime >= RING_LIFETIME =>
                \A k \in OpsAt(drawLog, "stroke") : drawLog[k].arg # r.pawnTime
        /\ \A x \in OpsAt(drawLog, "spawn") :
            /\ Cardinality({k \in OpsAt(drawLog, "stroke") : drawLog[k].arg = time}) = 1
            /\ \A k \in OpsAt(drawLog, "stroke") :
                drawLog[k].arg = time =>
                    /\ drawLog[k].age = 0
                    /\ drawLog[k].globalAlpha = 0
                    /\ drawLog[k].currentRadius = 80 * 5 * RING_LIFETIME

\* A tick that spawned a ring after another ring had expired.
C24_Witness ==
    /\ Ticked
    /\ OpsAt(drawLog, "spawn") # {}
    /\ \E r \in created : time - r.pawnTime >= RING_LIFETIME
    /\ Len(rings) >= 2

\* C25: started with the three pre-warmed rings and the watermark at the
\* start time, the ring list is not empty after any tick, however long the
\* gaps between ticks.
C25_NeverEmpty == Ticked => rings # <<>>

\* A tick after a gap longer than the lifetime: only the ring it spawned is left.
C25_Witness ==
    /\ Ticked
    /\ time - now >= RING_LIFETIME
    /\ frames = 1
    /\ rings = <<[pawnTime |-> time]>>

\* C26: the watermark never decreases and is never later than the latest
\* tick; once the engine runs it changes only in a tick that appends a ring;
\* after a spawn it is the largest spawn time ever created, and before the
\* first spawn it is the start time, which is the spawn time of no ring.
C26_Watermark ==
    [][/\ lastSpawnTime' >= lastSpawnTime
       /\ frames' >= 1 => lastSpawnTime' <= time'
       /\ (engine = "Running" /\ lastSpawnTime' # lastSpawnTime) =>
            /\ frames' = frames + 1
            /\ created' \ created = {[pawnTime |-> lastSpawnTime']}
            /\ rings'[Len(rings')] = [pawnTime |-> lastSpawnTime']
       /\ engine' \in {"Running", "Stopped"} =>
            LET spawned == {r \in created' : r.pawnTime > now' - 2000}
            IN /\ spawned # {} =>
                    /\ [pawnTime |-> lastSpawnTime'] \in spawned
                    /\ \A r \in created' : r.pawnTime <= lastSpawnTime'
               /\ spawned = {} =>
                    /\ lastSpawnTime' = now'
                    /\ [pawnTime |-> now'] \notin created']_vars

\* Two rings have been spawned.
C26_Witness ==
    /\ Cardinality({r \in created : r.pawnTime > now}) >= 2
    /\ lastSpawnTime = time
    /\ lastSpawnTime > now + 2 * SPAWN_INTERVAL

C28_LoadingWhileAnalyzing ==
    /\ inFlight.analyze <= 1
    /\ inFlight.analyze > 0 => state.status = "LOADING"

\* C29: at most one chat request is in flight, isChatting is false when none
\* is, and in the chat history every user message is followed by exactly one
\* AI message before the next user message.
C29_OneChatRequest ==
    /\ inFlight.chat <= 1
    /\ inFlight.chat = 0 => ~isChatting
    /\ \A i \in 1..Len(chatHistory) :
        /\ chatHistory[i] = "user" =>
              (i < Len(chatHistory) => chatHistory[i + 1] = "ai")
        /\ chatHistory[i] = "ai" => (i > 1 /\ chatHistory[i - 1] = "user")

====
